---- MODULE Spec2Model ----
(***************************************************************************)
(* Booking availability, booking lifecycle, reviews and payment            *)
(* reconciliation of the listings app (serializers.py, views.py,           *)
(* services.py, models.py, tasks.py).                                      *)
(*                                                                         *)
(* The database is the state.  Every HTTP request is one action; the      *)
(* response of the latest request is kept in `last`.  Dates are day        *)
(* numbers, so (end_date - start_date).days is end_date - start_date.      *)
(*                                                                         *)
(* serializers.py, tasks.py and seed.py address the Booking -> Listing     *)
(* relation by the keyword `property`, models.py and views.py call it      *)
(* `listing`.  The model follows the logic of each file and reads both     *)
(* names as the one relation.                                              *)
(*                                                                         *)
(* views.py calls initialize_payment without the tx_ref it has just        *)
(* generated.  PaymentInitiate takes the keywords of that call as a        *)
(* parameter: SpecInitiate explores the call as written, in which no       *)
(* Payment ever receives a provider reference; the other payment           *)
(* specifications explore the call with the tx_ref passed, so that         *)
(* webhooks and lookups have Payments to find.                             *)
(***************************************************************************)
EXTENDS Integers, Sequences, FiniteSets, TLC

(* ------------------------------ bounds --------------------------------- *)
MaxDate == 3          \* dates are 1..MaxDate
MaxBookings == 2      \* rows the Booking table may hold
MaxSeed == 1          \* rows `manage.py seed` leaves in the Booking table
MaxPayments == 2      \* rows the Payment table may hold
MaxOutbox == 1        \* jobs the task queue may hold
MaxReviews == 3       \* rows the Review table may hold

(* --------------------------- the data model ---------------------------- *)
Users == {"u1", "u2", "u3"}

\* The Listing table: property_id -> row (models.py Listing).
ListingRows ==
  [L1 |-> [host |-> "u1", price_per_night |-> 100],
   L2 |-> [host |-> "u2", price_per_night |-> 250]]

ListingIds == DOMAIN ListingRows

\* property ids a request may carry: the listings and one unknown id
PropertyIds == ListingIds \cup {"L0"}

\* BookingStatus lookup rows (seed.py creates the five of them)
BookingStatusNames == {"pending", "confirmed", "cancelled", "completed", "rejected"}

Dates == 1..MaxDate

NoStatus == "none"
NoUser == "nobody"

\* gunicorn/WSGI workers serving requests at the same time
Procs == {"p1", "p2"}

VARIABLES
  listings,   \* Listing table
  bookings,   \* Booking table: sequence of rows, booking_id = index
  reviews,    \* Review table: sequence of rows, review_id = index
  payments,   \* Payment table: sequence of rows, payment_id = index
  outbox,     \* jobs handed to the task queue with .delay()
  inflight,   \* concurrent create requests between validate() and create()
  last        \* the latest request and its response

vars == <<listings, bookings, reviews, payments, outbox, inflight, last>>

BookingIds == 1..MaxBookings

ERR_DATES == "End date must be after start date"
ERR_PROPERTY == "Property not found"
ERR_UNAVAILABLE == "Property is not available for the selected dates"
ERR_CONFIRM == "Only the host can confirm bookings"
ERR_CANCEL == "You do not have permission to cancel this booking"
ERR_NOT_FOUND == "Not found."
ERR_INTEGRITY == "IntegrityError"
NoError == ""

(* ------------------- BookingCreateSerializer.validate ------------------ *)

\* the queryset with closed intervals: a range starting on the day another
\* ends counts as overlapping
overlapping_bookings_closed(rows, property_obj, start_date, end_date) ==
  { i \in DOMAIN rows :
      /\ rows[i].listing = property_obj
      /\ rows[i].start_date <= end_date
      /\ rows[i].end_date >= start_date
      /\ rows[i].status \notin {"cancelled", "rejected"} }

\* The queryset of serializers.py:149-155 evaluated on table `rows`.
overlapping_bookings(rows, property_obj, start_date, end_date) ==
  { i \in DOMAIN rows :
      /\ rows[i].listing = property_obj
      /\ rows[i].start_date < end_date
      /\ rows[i].end_date > start_date
      /\ rows[i].status \notin {"cancelled", "rejected"} }

\* validate() with the date check made after the availability check
validate_dates_last(rows, attrs) ==
  IF attrs.property_id \notin DOMAIN listings THEN ERR_PROPERTY
  ELSE IF overlapping_bookings(rows, attrs.property_id,
                               attrs.start_date, attrs.end_date) # {}
       THEN ERR_UNAVAILABLE
  ELSE IF attrs.end_date <= attrs.start_date THEN ERR_DATES
  ELSE NoError

\* validate(): the error raised, or NoError when attrs are accepted.
validate(rows, attrs) ==
  IF attrs.end_date <= attrs.start_date THEN ERR_DATES
  ELSE IF attrs.property_id \notin DOMAIN listings THEN ERR_PROPERTY
  ELSE IF overlapping_bookings(rows, attrs.property_id,
                               attrs.start_date, attrs.end_date) # {}
       THEN ERR_UNAVAILABLE
  ELSE NoError

(* -------------------- BookingCreateSerializer.create ------------------- *)

\* total_price with the nights counted inclusively
total_price_inclusive(price_per_night, start_date, end_date) ==
  price_per_night * (end_date - start_date + 1)

\* serializers.py:168-169
total_price(price_per_night, start_date, end_date) ==
  price_per_night * (end_date - start_date)

\* the status taken from the request body when it gives one
default_status_from_body(body_status) ==
  IF body_status # NoStatus THEN body_status ELSE "pending"

\* The status the new row gets (serializers.py:174-175); the request body's
\* own `status` is not a serializer field and is dropped.
default_status(body_status) == "pending"

\* The guest of the new row: perform_create passes user=request.user.
perform_create_user(request_user, body_user) == request_user

\* The row Booking.objects.create(**validated_data) inserts.
create(attrs, request_user) ==
  [listing     |-> attrs.property_id,
   user        |-> perform_create_user(request_user, attrs.body_user),
   start_date  |-> attrs.start_date,
   end_date    |-> attrs.end_date,
   total_price |-> total_price(listings[attrs.property_id].price_per_night,
                               attrs.start_date, attrs.end_date),
   status      |-> default_status(attrs.body_status)]

\* CheckConstraint booking_end_after_start (models.py:125-130)
booking_end_after_start(row) == row.end_date > row.start_date

(* ------------------------------ requests ------------------------------- *)

\* Bodies of POST /bookings/: the three serializer fields, and `status` and
\* `user`, which the serializer does not declare (both absent or both given).
BookingRequests ==
  { [property_id |-> p, start_date |-> s, end_date |-> e,
     body_status |-> b[1], body_user |-> b[2]] :
       p \in PropertyIds, s \in Dates, e \in Dates,
       b \in {<<NoStatus, NoUser>>, <<"confirmed", "u3">>} }

\* What `last` keeps of a booking request and its response: the operation,
\* the authenticated user, the booking addressed or created, the HTTP status,
\* the error message, the body, and the status the addressed booking had
\* when the request arrived.
Response(op, actor, bid, code, error, req, prev) ==
  [op |-> op, actor |-> actor, bid |-> bid, code |-> code, error |-> error,
   property_id |-> req.property_id, start_date |-> req.start_date,
   end_date |-> req.end_date, body_status |-> req.body_status, prev |-> prev]

NoReq == [property_id |-> "L0", start_date |-> 0, end_date |-> 0,
          body_status |-> NoStatus, body_user |-> NoUser]

Idle == [pc |-> "idle", user |-> NoUser, req |-> NoReq, bid |-> 0]

(* ------------------------------- seed ---------------------------------- *)

\* seed.py:267: the rating of a seeded review
SeedRatings == {4}

\* Rows seed.py create_bookings can insert: guest is not the host, duration
\* at least one day, any status, price from the listing.
SeedRows ==
  { [listing |-> l, user |-> u, start_date |-> s, end_date |-> e,
     total_price |-> ListingRows[l].price_per_night * (e - s), status |-> st] :
       l \in ListingIds, u \in Users, s \in Dates, e \in Dates,
       st \in BookingStatusNames }

SeedRowOk(r) == r.user # ListingRows[r.listing].host /\ r.end_date > r.start_date

\* seed.py:213-220 skips a candidate that overlaps any existing row of the
\* listing, whatever its status.
SeedTables ==
  { t \in UNION { [1..n -> SeedRows] : n \in 0..MaxSeed } :
      /\ \A i \in DOMAIN t : SeedRowOk(t[i])
      /\ \A i, j \in DOMAIN t :
           (i # j /\ t[i].listing = t[j].listing) =>
             ~(t[i].start_date < t[j].end_date /\ t[i].end_date > t[j].start_date) }

\* seed.py create_reviews: one review for the listing and guest of every
\* completed booking, none for a pair that has one already.
create_reviews(rows) ==
  { t \in UNION { [1..n -> [listing : ListingIds, user : Users,
                            rating : SeedRatings]] : n \in 0..Len(rows) } :
      /\ \A i, j \in DOMAIN t :
           (t[i].listing = t[j].listing /\ t[i].user = t[j].user) => i = j
      /\ { <<t[i].listing, t[i].user>> : i \in DOMAIN t } =
           { <<rows[k].listing, rows[k].user>> :
               k \in { k \in DOMAIN rows : rows[k].status = "completed" } } }

Init ==
  /\ listings = ListingRows
  /\ bookings \in SeedTables
  /\ reviews \in create_reviews(bookings)
  /\ payments = <<>>
  /\ outbox = <<>>
  /\ inflight = [p \in Procs |-> Idle]
  /\ last = Response("none", NoUser, 0, 0, NoError, NoReq, NoStatus)

(* --------------------------- POST /bookings/ --------------------------- *)

\* the insert without the .delay() that follows it
save_without_delay(row, request_user, req) ==
  IF ~booking_end_after_start(row)
  THEN /\ last' = Response("create", request_user, 0, 500, ERR_INTEGRITY, req,
                           NoStatus)
       /\ UNCHANGED <<bookings, outbox>>
  ELSE LET bid == Len(bookings) + 1 IN
       /\ bookings' = Append(bookings, row)
       /\ UNCHANGED outbox
       /\ last' = Response("create", request_user, bid, 201, NoError, req,
                           NoStatus)

\* Booking.objects.create and the .delay() that follows it
\* (serializers.py:177-183); the insert is refused by the table's check
\* constraint when the row breaks it.
save(row, request_user, req) ==
  IF ~booking_end_after_start(row)
  THEN /\ last' = Response("create", request_user, 0, 500, ERR_INTEGRITY, req,
                           NoStatus)
       /\ UNCHANGED <<bookings, outbox>>
  ELSE LET bid == Len(bookings) + 1 IN
       /\ bookings' = Append(bookings, row)
       /\ outbox' = Append(outbox, [task |-> "send_booking_creation_email",
                                   arg |-> bid])
       /\ last' = Response("create", request_user, bid, 201, NoError, req,
                           NoStatus)

\* BookingViewSet.create with BookingCreateSerializer, run without
\* interruption: is_valid(), then perform_create ->
\* serializer.save(user=request.user) -> create().
BookingCreate(request_user, req) ==
  /\ Len(bookings) < MaxBookings
  /\ LET err == validate(bookings, req) IN
     IF err # NoError
     THEN /\ last' = Response("create", request_user, 0, 400, err, req, NoStatus)
          /\ UNCHANGED <<bookings, outbox>>
     ELSE save(create(req, request_user), request_user, req)
  /\ UNCHANGED <<listings, reviews, payments, inflight>>

(* --------------------- BookingViewSet.get_object ----------------------- *)

\* get_queryset (views.py:226-236): rows where the user is guest or host.
get_queryset(user) ==
  { i \in DOMAIN bookings :
      bookings[i].user = user \/ listings[bookings[i].listing].host = user }

\* IsOwnerOrReadOnly for the POST actions on a booking: the parties of the
\* booking pass.
IsOwnerOrReadOnly(user, booking) ==
  user \in {booking.user, listings[booking.listing].host}

\* confirm open to the guest as well
may_confirm_guest(user, booking) ==
  user \in {booking.user, listings[booking.listing].host}

\* views.py:253
may_confirm(user, booking) == user = listings[booking.listing].host

\* cancel open to the guest only
may_cancel_guest_only(user, booking) == user = booking.user

\* views.py:276
may_cancel(user, booking) ==
  user \in {booking.user, listings[booking.listing].host}

\* booking.status = <row of BookingStatus>; booking.save()
SetStatus(bid, name) == [bookings EXCEPT ![bid].status = name]

\* the status a booking id has in the table when a request arrives
StatusOf(bid) ==
  IF bid \in DOMAIN bookings THEN bookings[bid].status ELSE NoStatus

\* BookingViewSet.confirm
confirm(request_user, booking_id) ==
  /\ IF booking_id \notin get_queryset(request_user)
     THEN /\ last' = Response("confirm", request_user, booking_id, 404,
                              ERR_NOT_FOUND, NoReq, StatusOf(booking_id))
          /\ UNCHANGED bookings
     ELSE LET booking == bookings[booking_id] IN
          IF ~IsOwnerOrReadOnly(request_user, booking) \/
             ~may_confirm(request_user, booking)
          THEN /\ last' = Response("confirm", request_user, booking_id, 403,
                                   ERR_CONFIRM, NoReq, booking.status)
               /\ UNCHANGED bookings
          ELSE /\ bookings' = SetStatus(booking_id, "confirmed")
               /\ last' = Response("confirm", request_user, booking_id, 200,
                                   NoError, NoReq, booking.status)
  /\ UNCHANGED <<listings, reviews, payments, outbox, inflight>>

\* BookingViewSet.cancel
cancel(request_user, booking_id) ==
  /\ IF booking_id \notin get_queryset(request_user)
     THEN /\ last' = Response("cancel", request_user, booking_id, 404,
                              ERR_NOT_FOUND, NoReq, StatusOf(booking_id))
          /\ UNCHANGED bookings
     ELSE LET booking == bookings[booking_id] IN
          IF ~IsOwnerOrReadOnly(request_user, booking) \/
             ~may_cancel(request_user, booking)
          THEN /\ last' = Response("cancel", request_user, booking_id, 403,
                                   ERR_CANCEL, NoReq, booking.status)
               /\ UNCHANGED bookings
          ELSE /\ bookings' = SetStatus(booking_id, "cancelled")
               /\ last' = Response("cancel", request_user, booking_id, 200,
                                   NoError, NoReq, booking.status)
  /\ UNCHANGED <<listings, reviews, payments, outbox, inflight>>

Next ==
  \/ \E u \in Users, req \in BookingRequests : BookingCreate(u, req)
  \/ \E u \in Users, b \in BookingIds : confirm(u, b)
  \/ \E u \in Users, b \in BookingIds : cancel(u, b)

Spec == Init /\ [][Next]_vars

(* ---------------- POST /bookings/ under concurrent requests ------------ *)

\* serializer.is_valid() of the request handled by worker p: validate() reads
\* the Booking table; nothing is locked and no transaction is opened.
is_valid(p, request_user, req) ==
  /\ inflight[p].pc = "idle"
  /\ Len(bookings) + Cardinality({q \in Procs : inflight[q].pc = "validated"})
       < MaxBookings
  /\ LET err == validate(bookings, req) IN
     IF err # NoError
     THEN /\ last' = Response("create", request_user, 0, 400, err, req, NoStatus)
          /\ inflight' = [inflight EXCEPT ![p].pc = "rejected"]
     ELSE /\ inflight' = [inflight EXCEPT ![p] =
                 [pc |-> "validated", user |-> request_user, req |-> req,
                  bid |-> 0]]
          /\ UNCHANGED last
  /\ UNCHANGED <<listings, reviews, bookings, payments, outbox>>

\* perform_create of the request handled by worker p: create() inserts the
\* row from the attrs validate() accepted earlier.
perform_create(p) ==
  /\ inflight[p].pc = "validated"
  /\ save(create(inflight[p].req, inflight[p].user), inflight[p].user,
          inflight[p].req)
  /\ inflight' = [inflight EXCEPT ![p].pc = "created",
                                  ![p].bid = Len(bookings) + 1]
  /\ UNCHANGED <<listings, reviews, payments>>

NextConc ==
  \/ \E p \in Procs, u \in Users, req \in BookingRequests : is_valid(p, u, req)
  \/ \E p \in Procs : perform_create(p)

SpecConc == Init /\ [][NextConc]_vars

(* ------------------------------ payments ------------------------------- *)

Null == "NULL"          \* SQL NULL / Python None
NullRef == <<>>         \* NULL in chapa_reference, None as a tx_ref
Missing == "missing"    \* a key the request body does not have

\* a request body that is a JSON array, not an object: it has no keys and no
\* method `get`
NotADict == [json |-> "array"]

\* the random suffix uuid4().hex[:8] of a tx_ref (views.py:361)
HexSuffixes == {"a1", "b2"}

\* tx_ref = f"booking-{booking_id}-{suffix}"
TxRef(booking_id, suffix) == <<"booking", booking_id, suffix>>

TxRefs == { TxRef(b, h) : b \in BookingIds, h \in HexSuffixes }

\* the provider's own transaction references
References == {"R1", "R2"}

\* values of the webhook's `status`
WebhookStatuses ==
  {"success", "failed/cancelled", "failed", "refunded", "reversed", "pending"}

PAYMENT_STATUS_CHOICES == {"pending", "completed", "failed", "refunded", "reversed"}

\* What `last` keeps of a payment request and its response: the operation,
\* the authenticated user, the Payment created or matched (0 when none), the
\* HTTP status, the request's tx_ref, status and reference, what the gateway
\* answers for the request ("success" or "error"), the Payments whose data the
\* body returns, the exception that left the handler uncaught (Null when
\* the handler produced the response itself), and whether the request
\* repeats the payload of the request before it.
PayResponse(op, actor, pid, code, tx_ref, status, reference, verification, data, raised) ==
  [op |-> op, actor |-> actor, pid |-> pid, code |-> code, tx_ref |-> tx_ref,
   status |-> status, reference |-> reference, verification |-> verification,
   data |-> data, raised |-> raised, redelivery |-> FALSE]

\* Payment.objects.get(chapa_reference=value): the rows matched.  A value of
\* None is looked up as IS NULL.
by_chapa_reference(value) ==
  { i \in DOMAIN payments : payments[i].chapa_reference = value }

\* the two columns without unique=True: nothing collides
unique_violation_off(pid, field, value) == FALSE

\* unique=True on transaction_id and chapa_reference (models.py:243-244):
\* would row pid, holding `value` in `field`, collide with another row?
\* NULLs never collide.
unique_violation(pid, field, value) ==
  /\ value # (IF field = "chapa_reference" THEN NullRef ELSE Null)
  /\ \E i \in DOMAIN payments : i # pid /\ payments[i][field] = value

\* a table that reads the payload handled just before, when it comes again,
\* as a reset to pending
payment_status_for_toggle(status) ==
  IF last.op = "webhook" /\ last.code = 200 /\ last.status = status
  THEN "pending"
  ELSE IF status = "success" THEN "completed"
  ELSE IF status = "failed/cancelled" THEN "failed"
  ELSE IF status \in {"refunded", "reversed"} THEN status
  ELSE "pending"

\* the table in which "failed" is read as a failure too
payment_status_for_failed(status) ==
  IF status = "success" THEN "completed"
  ELSE IF status \in {"failed/cancelled", "failed"} THEN "failed"
  ELSE IF status \in {"refunded", "reversed"} THEN status
  ELSE "pending"

\* the payload's status stored as it comes
payment_status_for_raw(status) == status

\* views.py:445
payment_status_for(status) ==
  IF status = "success" THEN "completed"
  ELSE IF status = "failed/cancelled" THEN "failed"
  ELSE IF status \in {"refunded", "reversed"} THEN status
  ELSE "pending"

\* views.py:449-453: the task submitted for a webhook status, if any
notification_for(status) ==
  IF status = "success" THEN "send_payment_confirmation_email"
  ELSE IF status = "failed" THEN "send_payment_failed_email"
  ELSE Null

\* What a request to the gateway can end in: an answer, or one of the
\* failures of requests.post/get, raise_for_status and response.json
GatewayOutcomes == {"ok", "timeout", "connection_error", "http_error", "invalid_json"}

\* the exception the client sees for an outcome (Null: none)
gateway_exception(outcome) ==
  CASE outcome = "ok" -> Null
    [] outcome = "invalid_json" -> "ValueError"
    [] OTHER -> "RequestException"

\* services.py:45-49: the keys initialize_payment reads from the booking dict
BookingKeys == {"booking_id", "listing", "start_date", "end_date", "total_price"}

\* serializers.py:113-116: the keys of a serialized booking
BookingSerializerFields ==
  {"booking_id", "listing", "user", "start_date", "end_date", "total_price",
   "status", "duration_days", "created_at"}

\* services.py:30: the parameters of initialize_payment; none has a default
initialize_payment_params ==
  {"booking", "user", "tx_ref", "callback_url", "return_url"}

\* views.py:367-372: the keywords of the call as written
create_kwargs == {"booking", "user", "callback_url", "return_url"}

\* the same call with the tx_ref of views.py:361 passed as well
create_kwargs_tx_ref == create_kwargs \cup {"tx_ref"}

\* Python binds a call when every parameter without a default gets a value
\* and no unknown keyword is passed; otherwise the call raises TypeError
\* before the body runs.
call_binds(kwargs) ==
  /\ initialize_payment_params \subseteq kwargs
  /\ kwargs \subseteq initialize_payment_params

\* ChapaService.initialize_payment for a booking dict with the keys
\* `booking`: the reads of lines 45-49 come before the try block, the request
\* to the gateway is inside it.  `raised` is the exception that reaches the
\* caller (Null: a dict is returned).
initialize_payment(booking, tx_ref, outcome) ==
  IF ~(BookingKeys \subseteq booking)
  THEN [status |-> Missing, tx_ref |-> NullRef, raised |-> "KeyError"]
  ELSE IF gateway_exception(outcome) = Null
  THEN [status |-> "success", tx_ref |-> tx_ref, raised |-> Null]
  ELSE [status |-> "error", tx_ref |-> NullRef, raised |-> Null]

\* PaymentInitiateView.create: POST /payments/{booking_id}/initiate/, with
\* `kwargs` the keywords its call of initialize_payment passes
PaymentInitiate(request_user, booking_id, amount, payment_method, suffix, outcome, kwargs) ==
  /\ Len(payments) < MaxPayments
  /\ LET pid == Len(payments) + 1
         row == [booking |-> booking_id, user |-> request_user,
                 amount |-> amount, payment_status |-> "pending",
                 transaction_id |-> Null, chapa_reference |-> NullRef]
         tx_ref == TxRef(booking_id, suffix)
         chapa_response ==
           initialize_payment(BookingSerializerFields, tx_ref, outcome)
         gateway == IF gateway_exception(outcome) = Null THEN "success"
                    ELSE "error"
         resp(code, p, t, raised) ==
           PayResponse("initiate", request_user, p, code, t, Null, Null,
                       IF p = 0 THEN Null ELSE gateway, {}, raised)
     IN
     IF amount <= 0
     THEN /\ last' = resp(400, 0, NullRef, Null) /\ UNCHANGED payments
     ELSE IF payment_method = Missing
     THEN /\ last' = resp(500, 0, NullRef, "TypeError") /\ UNCHANGED payments
     ELSE IF booking_id \notin DOMAIN bookings
     THEN /\ last' = resp(404, 0, NullRef, Null) /\ UNCHANGED payments
     ELSE IF ~call_binds(kwargs)
     THEN /\ payments' = Append(payments, row)
          /\ last' = resp(500, pid, NullRef, "TypeError")
     ELSE IF chapa_response.raised # Null
     THEN /\ payments' = Append(payments, row)
          /\ last' = resp(500, pid, NullRef, chapa_response.raised)
     ELSE IF chapa_response.status # "success"
     THEN /\ payments' = Append(payments, row)
          /\ last' = resp(500, pid, NullRef, Null)
     ELSE IF unique_violation(pid, "chapa_reference", chapa_response.tx_ref)
     THEN /\ payments' = Append(payments, row)
          /\ last' = resp(500, pid, NullRef, "IntegrityError")
     ELSE /\ payments' = Append(payments,
                 [row EXCEPT !.chapa_reference = chapa_response.tx_ref])
          /\ last' = resp(201, pid, chapa_response.tx_ref, Null)
  /\ UNCHANGED <<listings, reviews, bookings, outbox, inflight>>

\* ChapaService.verify_payment, which get_payment_status returns as it is:
\* a dict with `data` when the gateway answered, without it on any failure
verify_payment(tx_ref, outcome) ==
  IF gateway_exception(outcome) = Null
  THEN [status |-> "success", data |-> tx_ref, raised |-> Null]
  ELSE [status |-> "error", data |-> Missing, raised |-> Null]

\* ChapaService.handle_webhook: verifies with the provider and returns a
\* dict; the verification outcome is carried in the response only.
handle_webhook(webhook_data, outcome) ==
  IF "json" \in DOMAIN webhook_data
  THEN [status |-> "error", tx_ref |-> NullRef, payment_status |-> Missing,
        verification |-> Missing, raised |-> Null]
  ELSE [status |-> "success", tx_ref |-> webhook_data.tx_ref,
        payment_status |-> webhook_data.status,
        verification |-> verify_payment(webhook_data.tx_ref, outcome).status,
        raised |-> Null]

\* the handler saving the status before it reads the payload's reference: a
\* payload without reference leaves the new status behind
PaymentWebhook_partial(webhook_data, outcome) ==
  LET response == handle_webhook(webhook_data, outcome)
      found == by_chapa_reference(webhook_data.tx_ref)
      pid == CHOOSE i \in found : TRUE
      task == notification_for(webhook_data.status)
      resp(code, p) ==
        PayResponse("webhook", NoUser, p, code, webhook_data.tx_ref,
                    webhook_data.status, webhook_data.reference,
                    response.verification, {}, Null)
  IN
  /\ IF Cardinality(found) # 1
     THEN /\ last' = resp(500, 0)
          /\ UNCHANGED <<payments, outbox>>
     ELSE IF webhook_data.status = Missing
          THEN /\ last' = resp(500, pid)
               /\ UNCHANGED <<payments, outbox>>
          ELSE IF webhook_data.reference = Missing
          THEN /\ last' = resp(500, pid)
               /\ payments' = [payments EXCEPT
                    ![pid].payment_status = payment_status_for(webhook_data.status)]
               /\ UNCHANGED outbox
          ELSE IF unique_violation(pid, "transaction_id", webhook_data.reference)
          THEN /\ last' = resp(500, pid)
               /\ UNCHANGED <<payments, outbox>>
          ELSE /\ task # Null => Len(outbox) < MaxOutbox
               /\ payments' = [payments EXCEPT
                    ![pid].payment_status = payment_status_for(webhook_data.status),
                    ![pid].transaction_id = webhook_data.reference]
               /\ outbox' = IF task = Null THEN outbox
                            ELSE Append(outbox, [task |-> task, arg |-> pid])
               /\ last' = resp(200, pid)
  /\ UNCHANGED <<listings, reviews, bookings, inflight>>

\* the handler confirming the booking of a Payment it completes
PaymentWebhook_confirming(webhook_data, outcome) ==
  LET response == handle_webhook(webhook_data, outcome)
      found == by_chapa_reference(webhook_data.tx_ref)
      pid == CHOOSE i \in found : TRUE
      task == notification_for(webhook_data.status)
      resp(code, p) ==
        PayResponse("webhook", NoUser, p, code, webhook_data.tx_ref,
                    webhook_data.status, webhook_data.reference,
                    response.verification, {}, Null)
  IN
  /\ IF Cardinality(found) # 1
     THEN /\ last' = resp(500, 0)
          /\ UNCHANGED <<payments, outbox, bookings>>
     ELSE IF webhook_data.status = Missing \/ webhook_data.reference = Missing
          THEN /\ last' = resp(500, pid)
               /\ UNCHANGED <<payments, outbox, bookings>>
          ELSE IF unique_violation(pid, "transaction_id", webhook_data.reference)
          THEN /\ last' = resp(500, pid)
               /\ UNCHANGED <<payments, outbox, bookings>>
          ELSE /\ task # Null => Len(outbox) < MaxOutbox
               /\ payments' = [payments EXCEPT
                    ![pid].payment_status = payment_status_for(webhook_data.status),
                    ![pid].transaction_id = webhook_data.reference]
               /\ bookings' = IF webhook_data.status = "success"
                              THEN SetStatus(payments[pid].booking, "confirmed")
                              ELSE bookings
               /\ outbox' = IF task = Null THEN outbox
                            ELSE Append(outbox, [task |-> task, arg |-> pid])
               /\ last' = resp(200, pid)
  /\ UNCHANGED <<listings, reviews, inflight>>

\* PaymentWebhookView.post: POST /payments/webhook/
PaymentWebhook(webhook_data, outcome) ==
  LET response == handle_webhook(webhook_data, outcome)
      found == by_chapa_reference(webhook_data.tx_ref)
      pid == CHOOSE i \in found : TRUE
      task == notification_for(webhook_data.status)
      redelivery == /\ last.op = "webhook"
                    /\ last.tx_ref = webhook_data.tx_ref
                    /\ last.status = webhook_data.status
                    /\ last.reference = webhook_data.reference
      resp(code, p) ==
        [PayResponse("webhook", NoUser, p, code, webhook_data.tx_ref,
                     webhook_data.status, webhook_data.reference,
                     response.verification, {}, Null)
           EXCEPT !.redelivery = redelivery]
  IN
  /\ IF Cardinality(found) # 1
     THEN /\ last' = resp(500, 0)
          /\ UNCHANGED <<payments, outbox>>
     ELSE IF webhook_data.status = Missing \/ webhook_data.reference = Missing
          THEN /\ last' = resp(500, pid)
               /\ UNCHANGED <<payments, outbox>>
          ELSE IF unique_violation(pid, "transaction_id", webhook_data.reference)
          THEN /\ last' = resp(500, pid)
               /\ UNCHANGED <<payments, outbox>>
          ELSE /\ task # Null => Len(outbox) < MaxOutbox
               /\ payments' = [payments EXCEPT
                    ![pid].payment_status = payment_status_for(webhook_data.status),
                    ![pid].transaction_id = webhook_data.reference]
               /\ outbox' = IF task = Null THEN outbox
                            ELSE Append(outbox, [task |-> task, arg |-> pid])
               /\ last' = resp(200, pid)
  /\ UNCHANGED <<listings, reviews, bookings, inflight>>

\* the lookup writing what the provider reports into the Payment it finds
PaymentStatus_syncing(tx_ref, outcome) ==
  LET verification_response == verify_payment(tx_ref, outcome)
      found == by_chapa_reference(tx_ref)
      resp(code, p, data, raised) ==
        PayResponse("status", NoUser, p, code, tx_ref, Null, Null,
                    verification_response.status, data, raised)
      ok == /\ verification_response.data # Missing
            /\ Cardinality(found) = 1
            /\ verification_response.status = "success"
  IN
  /\ last' =
       IF verification_response.data = Missing
       THEN resp(500, 0, {}, "KeyError")
       ELSE IF found = {}
       THEN resp(404, 0, {}, Null)
       ELSE IF Cardinality(found) > 1
       THEN resp(500, 0, {}, Null)
       ELSE IF verification_response.status = "success"
       THEN resp(200, CHOOSE i \in found : TRUE, found, Null)
       ELSE resp(500, CHOOSE i \in found : TRUE, {}, Null)
  /\ payments' = IF ok
                 THEN [payments EXCEPT
                        ![CHOOSE i \in found : TRUE].payment_status = "completed"]
                 ELSE payments
  /\ UNCHANGED <<listings, reviews, bookings, outbox, inflight>>

\* PaymentStatusView.get: GET /payments/status/{tx_ref}/
PaymentStatus(tx_ref, outcome) ==
  LET verification_response == verify_payment(tx_ref, outcome)
      found == by_chapa_reference(tx_ref)
      resp(code, p, data, raised) ==
        PayResponse("status", NoUser, p, code, tx_ref, Null, Null,
                    verification_response.status, data, raised)
  IN
  /\ last' =
       IF verification_response.data = Missing
       THEN resp(500, 0, {}, "KeyError")
       ELSE IF found = {}
       THEN resp(404, 0, {}, Null)
       ELSE IF Cardinality(found) > 1
       THEN resp(500, 0, {}, Null)
       ELSE IF verification_response.status = "success"
       THEN resp(200, CHOOSE i \in found : TRUE, found, Null)
       ELSE resp(500, CHOOSE i \in found : TRUE, {}, Null)
  /\ UNCHANGED <<listings, reviews, bookings, payments, outbox, inflight>>

\* the list that ignores who is asking
filter_queryset_all(queryset, user) == queryset

\* PaymentListView.filter_queryset
filter_queryset(queryset, user) ==
  { i \in queryset : payments[i].user = user }

\* PaymentListView: GET /payments/
PaymentList(request_user) ==
  /\ last' = PayResponse("list", request_user, 0, 200, NullRef, Null, Null,
                         Null, filter_queryset(DOMAIN payments, request_user),
                         Null)
  /\ UNCHANGED <<listings, reviews, bookings, payments, outbox, inflight>>

\* PaymentDetailView.get_object: GET /payments/{payment_id}/.  The name
\* PermissionDenied is not imported in views.py, so the refusal of line 498
\* ends in NameError.
PaymentDetail(request_user, payment_id) ==
  LET resp(code, data, raised) ==
        PayResponse("detail", request_user, payment_id, code, NullRef, Null,
                    Null, Null, data, raised)
  IN
  /\ last' =
       IF payment_id \notin DOMAIN payments
       THEN resp(404, {}, Null)
       ELSE IF payments[payment_id].user # request_user
       THEN resp(500, {}, "NameError")
       ELSE resp(200, {payment_id}, Null)
  /\ UNCHANGED <<listings, reviews, bookings, payments, outbox, inflight>>

\* The Celery worker takes the oldest job and runs its task
\* (send_booking_creation_email, send_payment_confirmation_email,
\* send_payment_failed_email): the task reads the database and sends the
\* email or fails; the database is not written and nothing is reported to
\* the request that submitted the job.
run_task ==
  /\ outbox # <<>>
  /\ outbox' = Tail(outbox)
  /\ UNCHANGED <<listings, reviews, bookings, payments, inflight, last>>

\* bodies of POST /payments/webhook/: the tx_refs an initiation can have
\* issued for booking 1, or none
WebhookPayloads ==
  [tx_ref : {TxRef(1, h) : h \in HexSuffixes} \cup {NullRef},
   status : WebhookStatuses \cup {Missing},
   reference : References \cup {Missing}]

\* the users who initiate payments
PayUsers == {"u2"}

\* the users who read payments
PayReaders == {"u2", "u3"}

\* how the provider verification inside handle_webhook ends; it reaches the
\* response body only
VerifyOutcomes == {"ok"}

\* how the initialization request to the gateway ends
InitiateOutcomes == {"ok", "timeout"}

\* the database the payment requests start from: one seeded booking
InitPay ==
  /\ Init
  /\ Len(bookings) = 1
  /\ bookings[1].listing = "L1" /\ bookings[1].user = "u2"
  /\ bookings[1].start_date = 1 /\ bookings[1].end_date = 2
  /\ bookings[1].status = "confirmed"

NextPay ==
  \/ \E u \in PayUsers, b \in BookingIds, amount \in {0, 100},
        m \in {"Chapa", Missing}, h \in HexSuffixes, g \in InitiateOutcomes :
       PaymentInitiate(u, b, amount, m, h, g, create_kwargs_tx_ref)
  \/ \E w \in WebhookPayloads, g \in VerifyOutcomes : PaymentWebhook(w, g)
  \/ run_task

SpecPay == InitPay /\ [][NextPay]_vars

\* The read endpoints and the provider verification, over fewer webhook
\* bodies and with two users paying for the booking.
LookupPayloads ==
  [tx_ref : {TxRef(1, h) : h \in HexSuffixes},
   status : {"success", "failed/cancelled"},
   reference : {"R1"}]

NextLookup ==
  \/ \E u \in PayReaders, h \in HexSuffixes, g \in InitiateOutcomes :
       PaymentInitiate(u, 1, 100, "Chapa", h, g, create_kwargs_tx_ref)
  \/ \E w \in LookupPayloads, g \in {"ok", "timeout"} : PaymentWebhook(w, g)
  \/ run_task
  \/ \E h \in HexSuffixes, g \in GatewayOutcomes : PaymentStatus(TxRef(1, h), g)
  \/ \E u \in PayReaders : PaymentList(u)
  \/ \E u \in PayReaders, i \in 1..MaxPayments : PaymentDetail(u, i)

SpecLookup == InitPay /\ [][NextLookup]_vars

\* The payment requests with initialize_payment called as views.py:367-372
\* calls it.
NextInitiate ==
  \/ \E u \in PayReaders, b \in BookingIds, amount \in {0, 100},
        m \in {"Chapa", Missing}, h \in HexSuffixes, g \in InitiateOutcomes :
       PaymentInitiate(u, b, amount, m, h, g, create_kwargs)
  \/ \E w \in WebhookPayloads, g \in VerifyOutcomes : PaymentWebhook(w, g)
  \/ run_task
  \/ \E h \in HexSuffixes, g \in {"ok", "timeout"} : PaymentStatus(TxRef(1, h), g)

SpecInitiate == InitPay /\ [][NextInitiate]_vars

\* Two deliveries of the webhook handled at the same time: the handler reads
\* the Payment (views.py:443-444), then sets the two fields on the instance
\* it holds and saves it (views.py:445-455).  Model.save() writes every
\* column of the instance.
webhook_get(p, webhook_data, outcome) ==
  LET response == handle_webhook(webhook_data, outcome)
      found == by_chapa_reference(webhook_data.tx_ref)
  IN
  /\ inflight[p].pc = "idle"
  /\ IF Cardinality(found) # 1
     THEN /\ last' = PayResponse("webhook", NoUser, 0, 500, webhook_data.tx_ref,
                                 webhook_data.status, webhook_data.reference,
                                 response.verification, {}, Null)
          /\ UNCHANGED inflight
     ELSE /\ inflight' = [inflight EXCEPT ![p] =
                 [pc |-> "got", webhook_data |-> webhook_data,
                  verification |-> response.verification,
                  pid |-> CHOOSE i \in found : TRUE,
                  payment_instance |-> payments[CHOOSE i \in found : TRUE]]]
          /\ UNCHANGED last
  /\ UNCHANGED <<listings, reviews, bookings, payments, outbox>>

webhook_save(p) ==
  /\ inflight[p].pc = "got"
  /\ LET webhook_data == inflight[p].webhook_data
         pid == inflight[p].pid
         task == notification_for(webhook_data.status)
         resp(code) ==
           PayResponse("webhook", NoUser, pid, code, webhook_data.tx_ref,
                       webhook_data.status, webhook_data.reference,
                       inflight[p].verification, {}, Null)
     IN
     IF unique_violation(pid, "transaction_id", webhook_data.reference)
     THEN /\ last' = resp(500)
          /\ UNCHANGED <<payments, outbox>>
     ELSE /\ task # Null => Len(outbox) < MaxOutbox
          /\ payments' = [payments EXCEPT ![pid] =
               [inflight[p].payment_instance EXCEPT
                  !.payment_status = payment_status_for(webhook_data.status),
                  !.transaction_id = webhook_data.reference]]
          /\ outbox' = IF task = Null THEN outbox
                       ELSE Append(outbox, [task |-> task, arg |-> pid])
          /\ last' = resp(200)
  /\ inflight' = [inflight EXCEPT ![p] = Idle]
  /\ UNCHANGED <<listings, reviews, bookings>>

HookPayloads ==
  [tx_ref : {TxRef(1, h) : h \in HexSuffixes},
   status : {"success", "failed/cancelled"},
   reference : {"R1"}]

NextHooks ==
  \/ \E h \in HexSuffixes :
       PaymentInitiate("u2", 1, 100, "Chapa", h, "ok", create_kwargs_tx_ref)
  \/ \E p \in Procs, w \in HookPayloads : webhook_get(p, w, "ok")
  \/ \E p \in Procs : webhook_save(p)
  \/ run_task

SpecHooks == InitPay /\ [][NextHooks]_vars

\* The three operations of the gateway client called on their own.  `last`
\* keeps the call and what it returned or raised.
ClientCall(op, booking, tx_ref, outcome, result) ==
  [op |-> op, booking |-> booking, tx_ref |-> tx_ref, outcome |-> outcome,
   result |-> result]

call_initialize_payment(booking, tx_ref, outcome) ==
  /\ last' = ClientCall("initialize_payment", booking, tx_ref, outcome,
                        initialize_payment(booking, tx_ref, outcome))
  /\ UNCHANGED <<listings, reviews, bookings, payments, outbox, inflight>>

call_verify_payment(tx_ref, outcome) ==
  /\ last' = ClientCall("verify_payment", {}, tx_ref, outcome,
                        verify_payment(tx_ref, outcome))
  /\ UNCHANGED <<listings, reviews, bookings, payments, outbox, inflight>>

call_handle_webhook(webhook_data, outcome) ==
  /\ last' = ClientCall("handle_webhook", {}, webhook_data, outcome,
                        handle_webhook(webhook_data, outcome))
  /\ UNCHANGED <<listings, reviews, bookings, payments, outbox, inflight>>

\* booking dicts: the serialized booking without some of the keys that
\* initialize_payment reads
BookingDicts == { BookingSerializerFields \ K : K \in SUBSET BookingKeys }

NextClient ==
  \/ \E b \in BookingDicts, t \in TxRefs, g \in GatewayOutcomes :
       call_initialize_payment(b, t, g)
  \/ \E t \in TxRefs, g \in GatewayOutcomes : call_verify_payment(t, g)
  \/ \E w \in WebhookPayloads \cup {NotADict}, g \in GatewayOutcomes :
       call_handle_webhook(w, g)

SpecClient == InitPay /\ [][NextClient]_vars

(* ------------------------------- reviews ------------------------------- *)

ERR_REVIEWED == "You have already reviewed this property"
ERR_RATING == "Ensure this value is between 1 and 5"
ERR_PERMISSION == "You do not have permission to perform this action."

\* values of `rating` in the body of add_review
Ratings == {0, 5}

\* the users who write reviews
ReviewUsers == {"u2", "u3"}

\* IsHostOrReadOnly, the object permission of ListingViewSet: writing the
\* listing itself is the host's; the sub-actions of a listing are open to
\* every authenticated user.
IsHostOrReadOnly(user, property_id, action) ==
  action = "add_review" \/ user = listings[property_id].host

\* MinValueValidator(1), MaxValueValidator(5) on Review.rating
\* (models.py:174-179), run by ReviewSerializer.is_valid()
rating_validators(rating) == rating >= 1 /\ rating <= 5

\* Review.objects.filter(listing=listing, user=request.user).exists()
review_exists(rows, property_id, user) ==
  \E i \in DOMAIN rows : rows[i].listing = property_id /\ rows[i].user = user

\* a Review table without the constraint: every insert is accepted
unique_user_listing_review_off(rows, row) == TRUE

\* UniqueConstraint unique_user_listing_review (models.py:190-195): may `row`
\* be inserted into `rows`?
unique_user_listing_review(rows, row) ==
  ~\E i \in DOMAIN rows : rows[i].listing = row.listing /\ rows[i].user = row.user

\* What `last` keeps of an add_review request and its response.
ReviewResponse(actor, property_id, rating, code, error) ==
  [op |-> "add_review", actor |-> actor, property_id |-> property_id,
   rating |-> rating, code |-> code, error |-> error]

\* the request worker p handles, with the HTTP status once it is answered
ReviewWorker(pc, user, property_id, rating, code) ==
  [pc |-> pc, user |-> user, property_id |-> property_id, rating |-> rating,
   code |-> code]

\* ListingViewSet.add_review, views.py:151-158, handled by worker p:
\* get_object(), then the check whether the user has reviewed the listing.
\* Nothing is locked and no transaction is opened.
add_review_exists(p, request_user, property_id, rating) ==
  /\ inflight[p].pc = "idle"
  /\ Len(reviews) + Cardinality({q \in Procs : inflight[q].pc = "checked"})
       < MaxReviews
  /\ LET answer(code, error) ==
           /\ inflight' = [inflight EXCEPT ![p] =
                ReviewWorker("answered", request_user, property_id, rating, code)]
           /\ last' = ReviewResponse(request_user, property_id, rating, code,
                                     error)
     IN
     IF property_id \notin DOMAIN listings
     THEN answer(404, ERR_NOT_FOUND)
     ELSE IF ~IsHostOrReadOnly(request_user, property_id, "add_review")
     THEN answer(403, ERR_PERMISSION)
     ELSE IF review_exists(reviews, property_id, request_user)
     THEN answer(400, ERR_REVIEWED)
     ELSE /\ inflight' = [inflight EXCEPT ![p] =
               ReviewWorker("checked", request_user, property_id, rating, 0)]
          /\ UNCHANGED last
  /\ UNCHANGED <<listings, bookings, reviews, payments, outbox>>

\* ListingViewSet.add_review, views.py:160-164, handled by worker p:
\* is_valid(), then serializer.save(listing=listing, user=request.user).  An
\* insert the constraint refuses raises IntegrityError, which nothing
\* catches.
add_review_save(p) ==
  /\ inflight[p].pc = "checked"
  /\ LET w == inflight[p]
         row == [listing |-> w.property_id, user |-> w.user,
                 rating |-> w.rating]
         answer(code, error) ==
           /\ inflight' = [inflight EXCEPT ![p].pc = "answered",
                                           ![p].code = code]
           /\ last' = ReviewResponse(w.user, w.property_id, w.rating, code,
                                     error)
     IN
     IF ~rating_validators(w.rating)
     THEN answer(400, ERR_RATING) /\ UNCHANGED reviews
     ELSE IF ~unique_user_listing_review(reviews, row)
     THEN answer(500, ERR_INTEGRITY) /\ UNCHANGED reviews
     ELSE answer(201, NoError) /\ reviews' = Append(reviews, row)
  /\ UNCHANGED <<listings, bookings, payments, outbox>>

\* worker p has sent its response and takes the next request
add_review_return(p) ==
  /\ inflight[p].pc = "answered"
  /\ inflight' = [inflight EXCEPT ![p] = Idle]
  /\ UNCHANGED <<listings, bookings, reviews, payments, outbox, last>>

\* the database the review requests start from: one seeded booking that is
\* completed, and the review seed.py writes for it
InitReview ==
  /\ Init
  /\ Len(bookings) = 1
  /\ bookings[1].listing = "L1" /\ bookings[1].user = "u2"
  /\ bookings[1].start_date = 1 /\ bookings[1].end_date = 2
  /\ bookings[1].status = "completed"

NextReview ==
  \/ \E p \in Procs, u \in ReviewUsers, l \in PropertyIds, r \in Ratings :
       add_review_exists(p, u, l, r)
  \/ \E p \in Procs : add_review_save(p)
  \/ \E p \in Procs : add_review_return(p)

SpecReview == InitReview /\ [][NextReview]_vars

(* ---------------- booking creation and its notification ---------------- *)

\* the database before any booking exists
InitNotify == Init /\ bookings = <<>>

\* POST /bookings/ and the worker that executes the submitted jobs, at any
\* time after their submission or not at all
NextNotify ==
  \/ \E u \in Users, req \in BookingRequests : BookingCreate(u, req)
  \/ run_task

SpecNotify == InitNotify /\ [][NextNotify]_vars

(* ------------------- webhooks that fail or go astray -------------------- *)

\* the database these requests start from: one seeded booking that is
\* pending
InitWebhook ==
  /\ Init
  /\ Len(bookings) = 1
  /\ bookings[1].listing = "L1" /\ bookings[1].user = "u2"
  /\ bookings[1].start_date = 1 /\ bookings[1].end_date = 2
  /\ bookings[1].status = "pending"

\* bodies of POST /payments/webhook/ with or without each of the three keys
FailurePayloads ==
  [tx_ref : {TxRef(1, h) : h \in HexSuffixes} \cup {NullRef},
   status : {"success", "failed", Missing},
   reference : {"R1", Missing}]

NextWebhook ==
  \/ \E h \in HexSuffixes, g \in InitiateOutcomes :
       PaymentInitiate("u2", 1, 100, "Chapa", h, g, create_kwargs_tx_ref)
  \/ \E w \in FailurePayloads : PaymentWebhook(w, "ok")
  \/ run_task
  \/ \E h \in HexSuffixes : PaymentStatus(TxRef(1, h), "ok")

SpecWebhook == InitWebhook /\ [][NextWebhook]_vars

(* --------------- updates of a listing and of a booking ------------------ *)

\* values of price_per_night in the body of a listing update
Prices == {0, 150}

\* values of total_price in the body of a booking update
TotalPrices == {0, 1}

\* validate_price_per_night (serializers.py:86-89)
validate_price_per_night(value) == value > 0

\* MinValueValidator(Decimal('0.01')) on Booking.total_price
\* (models.py:106-110), run by BookingSerializer.is_valid()
total_price_validators(value) == value > 0

\* ListingViewSet.partial_update with ListingCreateUpdateSerializer:
\* PATCH /listings/{property_id}/ {price_per_night}
ListingUpdate(request_user, property_id, price_per_night) ==
  LET resp(code, error) ==
        Response("listing_update", request_user, 0, code, error,
                 [NoReq EXCEPT !.property_id = property_id], NoStatus)
  IN
  /\ IF property_id \notin DOMAIN listings
     THEN last' = resp(404, ERR_NOT_FOUND) /\ UNCHANGED listings
     ELSE IF ~IsHostOrReadOnly(request_user, property_id, "partial_update")
     THEN last' = resp(403, ERR_PERMISSION) /\ UNCHANGED listings
     ELSE IF ~validate_price_per_night(price_per_night)
     THEN last' = resp(400, "Price per night must be greater than 0")
          /\ UNCHANGED listings
     ELSE /\ listings' = [listings EXCEPT
                            ![property_id].price_per_night = price_per_night]
          /\ last' = resp(200, NoError)
  /\ UNCHANGED <<reviews, bookings, payments, outbox, inflight>>

\* serializers.py:113-117: the fields of BookingSerializer that are neither
\* declared read-only nor listed in read_only_fields
writable_fields == {"start_date", "end_date", "total_price"}

\* bodies of PATCH /bookings/{booking_id}/: the keys the body has, and their
\* values
BookingUpdates ==
  [keys : SUBSET writable_fields, start_date : {1}, end_date : {1, 3},
   total_price : TotalPrices]

\* the instance after ModelSerializer.update has set the fields of the body
update(instance, body) ==
  [instance EXCEPT
     !.start_date = IF "start_date" \in body.keys THEN body.start_date ELSE @,
     !.end_date = IF "end_date" \in body.keys THEN body.end_date ELSE @,
     !.total_price = IF "total_price" \in body.keys THEN body.total_price
                     ELSE @]

\* BookingViewSet.partial_update with BookingSerializer:
\* PATCH /bookings/{booking_id}/.  The serializer has no validate(); the
\* table's check constraint refuses a row with end_date <= start_date.
BookingUpdate(request_user, booking_id, body) ==
  LET resp(code, error) ==
        Response("update", request_user, booking_id, code, error, NoReq,
                 StatusOf(booking_id))
  IN
  /\ IF booking_id \notin get_queryset(request_user)
     THEN last' = resp(404, ERR_NOT_FOUND) /\ UNCHANGED bookings
     ELSE IF ~IsOwnerOrReadOnly(request_user, bookings[booking_id])
     THEN last' = resp(403, ERR_PERMISSION) /\ UNCHANGED bookings
     ELSE IF "total_price" \in body.keys /\
             ~total_price_validators(body.total_price)
     THEN last' = resp(400, "total_price") /\ UNCHANGED bookings
     ELSE IF ~booking_end_after_start(update(bookings[booking_id], body))
     THEN last' = resp(500, ERR_INTEGRITY) /\ UNCHANGED bookings
     ELSE /\ bookings' = [bookings EXCEPT
                            ![booking_id] = update(bookings[booking_id], body)]
          /\ last' = resp(200, NoError)
  /\ UNCHANGED <<listings, reviews, payments, outbox, inflight>>

\* bodies of POST /bookings/ for listing L1
UpdateRequests ==
  { r \in BookingRequests : r.property_id = "L1" /\ r.body_status = NoStatus }

NextUpdate ==
  \/ \E u \in Users, req \in UpdateRequests : BookingCreate(u, req)
  \/ \E u \in Users, l \in PropertyIds, v \in Prices : ListingUpdate(u, l, v)
  \/ \E u \in Users, b \in BookingIds, body \in BookingUpdates :
       BookingUpdate(u, b, body)

SpecUpdate == InitPay /\ [][NextUpdate]_vars

TypeOK ==
  /\ Len(bookings) <= MaxBookings
  /\ \A i \in DOMAIN bookings : bookings[i].status \in BookingStatusNames

(* ------------------------------ claims --------------------------------- *)

Blocking(row) == row.status \notin {"cancelled", "rejected"}

HostOf(row) == listings[row.listing].host

\* C1: no two bookings of the same property whose statuses are both outside
\* {cancelled, rejected} have overlapping half-open intervals [start, end).
C1_NoOverlap ==
  \A i, j \in DOMAIN bookings :
    (i # j /\ bookings[i].listing = bookings[j].listing
           /\ Blocking(bookings[i]) /\ Blocking(bookings[j])) =>
      ~(bookings[i].start_date < bookings[j].end_date /\
        bookings[j].start_date < bookings[i].end_date)

\* C2: of two create requests for the same property with overlapping ranges
\* that are handled at the same time, at most one persists a booking.
C2_AtMostOnePersists ==
  \A p, q \in Procs :
    (p # q /\ inflight[p].pc = "created" /\ inflight[q].pc = "created"
           /\ inflight[p].req.property_id = inflight[q].req.property_id) =>
      ~(inflight[p].req.start_date < inflight[q].req.end_date /\
        inflight[q].req.start_date < inflight[p].req.end_date)

\* C3: every booking persisted by booking create has total_price equal to the
\* listing's nightly price at creation time multiplied by the number of days
\* between start_date and end_date, and end_date > start_date.
C3_TotalPrice ==
  (last.op = "create" /\ last.code = 201) =>
    /\ last.bid \in DOMAIN bookings
    /\ last.end_date > last.start_date
    /\ bookings[last.bid].total_price =
         listings[last.property_id].price_per_night *
           (last.end_date - last.start_date)

\* a create persisted a booking of two nights
C3_Witness ==
  /\ last.op = "create" /\ last.code = 201
  /\ last.end_date - last.start_date = 2
  /\ bookings[last.bid].total_price =
       2 * listings[last.property_id].price_per_night

\* the raw overlap condition of a request against the rows that were in the
\* table when it arrived
RawOverlap ==
  \E i \in DOMAIN bookings \ {last.bid} :
    /\ bookings[i].listing = last.property_id
    /\ Blocking(bookings[i])
    /\ bookings[i].start_date < last.end_date
    /\ last.start_date < bookings[i].end_date

\* C4: a create request with end_date <= start_date fails with the date-range
\* validation error, whatever the property and the existing bookings are, and
\* leaves the Booking table (and the task queue) unchanged.
C4_BadRange ==
  [][(last'.op = "create" /\ last'.end_date <= last'.start_date) =>
       /\ last'.code = 400
       /\ last'.error = ERR_DATES
       /\ bookings' = bookings
       /\ outbox' = outbox]_vars

\* a zero-length or inverted range that lies inside a blocking booking of the
\* property was refused with the date-range error
C4_Witness ==
  /\ last.op = "create" /\ last.end_date <= last.start_date
  /\ RawOverlap
  /\ last.code = 400 /\ last.error = ERR_DATES

C7_PendingAndGuest ==
  (last.op = "create" /\ last.code = 201) =>
    /\ bookings[last.bid].status = "pending"
    /\ bookings[last.bid].user = last.actor

\* a body carrying its own status and user produced a pending booking of the
\* requesting user
C7_Witness ==
  /\ last.op = "create" /\ last.code = 201
  /\ last.body_status = "confirmed"
  /\ last.actor # "u3"
  /\ bookings[last.bid].status = "pending"
  /\ bookings[last.bid].user = last.actor

\* C8: a booking's status changes only along create -> pending,
\* pending -> confirmed (by the host) and any -> cancelled (by guest or host).
C8_Transitions ==
  [][\A i \in DOMAIN bookings' :
       IF i \in DOMAIN bookings
       THEN bookings'[i].status # bookings[i].status =>
              \/ /\ bookings[i].status = "pending"
                 /\ bookings'[i].status = "confirmed"
                 /\ last'.actor = HostOf(bookings[i])
              \/ /\ bookings'[i].status = "cancelled"
                 /\ last'.actor \in {bookings[i].user, HostOf(bookings[i])}
       ELSE bookings'[i].status = "pending"]_vars

\* C9: cancel sets the status to cancelled from any current status when the
\* actor is the booking's guest or the listing's host; for any other actor the
\* request is refused and the status unchanged.
C9_Cancel ==
  (last.op = "cancel" /\ last.bid \in DOMAIN bookings) =>
    LET b == bookings[last.bid] IN
    IF last.actor \in {b.user, HostOf(b)}
    THEN last.code = 200 /\ b.status = "cancelled"
    ELSE last.code \in {403, 404} /\ b.status = last.prev

\* the host cancelled a completed booking
C9_Witness ==
  /\ last.op = "cancel" /\ last.code = 200
  /\ last.prev = "completed"
  /\ last.actor = HostOf(bookings[last.bid])
  /\ bookings[last.bid].status = "cancelled"

\* the local status the claim's table gives for a webhook status
C10_Table(status) ==
  CASE status = "success" -> "completed"
    [] status = "failed/cancelled" -> "failed"
    [] status = "refunded" -> "refunded"
    [] status = "reversed" -> "reversed"
    [] OTHER -> "pending"

\* the webhook in `last` carries tx_ref, status and reference, and its tx_ref
\* is the provider reference of Payment i
C10_Case(i) ==
  /\ last.op = "webhook" /\ last.pid = i
  /\ payments[i].chapa_reference # NullRef
  /\ last.status # Missing /\ last.reference # Missing

\* another Payment already holds the payload's reference as transaction id
C10_Taken(i) ==
  \E j \in DOMAIN payments :
    j # i /\ payments[j].transaction_id = last.reference

WebhookStep == last'.op = "webhook" /\ Len(outbox') >= Len(outbox)

\* the tasks a step submits
Submitted ==
  { outbox'[k].task : k \in (Len(outbox) + 1)..Len(outbox') }

\* C11: each handled webhook dispatches at most one notification, chosen by
\* the resulting local state of the Payment: the confirmation email exactly
\* when the Payment becomes completed, the failure email exactly when it
\* becomes failed, none when it becomes pending, refunded or reversed.
C11_Notification ==
  [][(WebhookStep /\ last'.code = 200) =>
       LET st == payments'[last'.pid].payment_status IN
       /\ Cardinality(Submitted) <= 1 /\ Len(outbox') <= Len(outbox) + 1
       /\ "send_payment_confirmation_email" \in Submitted <=> st = "completed"
       /\ "send_payment_failed_email" \in Submitted <=> st = "failed"]_vars

C13_NoDuplicate ==
  [][(/\ WebhookStep /\ last'.code = 200
      /\ payments[last'.pid].payment_status = "completed"
      /\ payments'[last'.pid].payment_status = "completed") =>
       Submitted = {}]_vars

\* C14: a webhook asserting status success whose provider verification did
\* not succeed does not move the Payment to completed.
C14_Verified ==
  [][(/\ WebhookStep /\ last'.status = "success"
      /\ last'.verification # "success"
      /\ last'.pid \in DOMAIN payments
      /\ payments[last'.pid].payment_status # "completed") =>
       payments'[last'.pid].payment_status # "completed"]_vars

\* C16: a webhook that carries tx_ref, status and reference and whose tx_ref
\* matches no Payment is answered 404.
C16_NotFound ==
  (/\ last.op = "webhook" /\ last.tx_ref # NullRef
   /\ last.status # Missing /\ last.reference # Missing
   /\ by_chapa_reference(last.tx_ref) = {}) =>
    last.code = 404

\* C18: the status lookup always ends in a response of the handler: 500 when
\* the gateway verification is an error result, 404 when no Payment has the
\* tx_ref, 200 otherwise; no exception leaves the handler.
C18_Handled ==
  last.op = "status" =>
    /\ last.raised = Null
    /\ last.code = (IF last.verification = "error" THEN 500
                    ELSE IF by_chapa_reference(last.tx_ref) = {} THEN 404
                    ELSE 200)

\* C19: an initiation for an existing booking is answered 201 with a tx_ref
\* when the gateway accepts it and 500 when it does not, and after a 201 the
\* tx_ref is the provider reference of the created Payment and of no other.
C19_Initiate ==
  (last.op = "initiate" /\ last.pid # 0) =>
    IF last.verification = "success"
    THEN /\ last.code = 201
         /\ last.tx_ref # NullRef
         /\ by_chapa_reference(last.tx_ref) = {last.pid}
    ELSE last.code = 500

C15_CompareAndSet ==
  [][\A p \in Procs :
       (inflight[p].pc = "got" /\ inflight'[p].pc = "idle" /\ last'.code = 200) =>
         inflight[p].payment_instance.payment_status =
           payments[inflight[p].pid].payment_status]_vars

\* C17: initialize_payment, verify_payment and handle_webhook never raise to
\* their caller: for every input and gateway outcome they return a record
\* whose status is success or error.
C17_NeverRaise ==
  last.op \in {"initialize_payment", "verify_payment", "handle_webhook"} =>
    /\ last.result.raised = Null
    /\ last.result.status \in {"success", "error"}
\* the Review table holds at most one row per (listing, user) pair
OnePerPair ==
  \A i, j \in DOMAIN reviews :
    (reviews[i].listing = reviews[j].listing /\ reviews[i].user = reviews[j].user)
      => i = j

\* worker p takes up a request in this step
Arrives(p) == inflight[p].pc = "idle" /\ inflight'[p].pc # "idle"

CreateStep == last'.op = "create" /\ (last' # last \/ bookings' # bookings)

\* the job a persisted booking is announced with
CreationJob(bid) == [task |-> "send_booking_creation_email", arg |-> bid]

C24_TotalPrice ==
  \A i \in DOMAIN bookings :
    /\ bookings[i].end_date > bookings[i].start_date
    /\ bookings[i].total_price =
         listings[bookings[i].listing].price_per_night *
           (bookings[i].end_date - bookings[i].start_date)

\* C25: a Payment that is completed stays completed or becomes refunded or
\* reversed; no webhook returns it to pending.
C25_NoReturn ==
  [][\A i \in DOMAIN payments :
       payments[i].payment_status = "completed" =>
         payments'[i].payment_status \in {"completed", "refunded", "reversed"}]_vars

\* the webhook of this step cannot be processed: a key is missing, its tx_ref
\* matches no single Payment, or its reference is the transaction id of a
\* Payment other than the matched one
C26_Fails ==
  \/ last'.status = Missing
  \/ last'.reference = Missing
  \/ Cardinality(by_chapa_reference(last'.tx_ref)) # 1
  \/ \E j \in DOMAIN payments :
       /\ j \notin by_chapa_reference(last'.tx_ref)
       /\ payments[j].transaction_id = last'.reference

\* C26: a webhook that fails while being processed is answered with an error
\* and leaves the Payment table and the task queue as they were.
C26_Failure ==
  [][(WebhookStep /\ C26_Fails) =>
       /\ last'.code = 500
       /\ payments' = payments
       /\ outbox' = outbox]_vars

\* a success payload for a pending Payment carried the transaction id of
\* another Payment: it was refused and the Payment is as it was
C26_Witness ==
  /\ last.op = "webhook" /\ last.code = 500 /\ last.pid \in DOMAIN payments
  /\ last.status = "success" /\ last.reference = "R1"
  /\ payments[last.pid].payment_status = "pending"
  /\ payments[last.pid].transaction_id = Null
  /\ \E j \in DOMAIN payments : j # last.pid /\ payments[j].transaction_id = "R1"

\* a step of the status lookup
StatusStep == last'.op = "status" /\ last' # last

\* C27: the status lookup changes no table and submits no job, whatever the
\* provider reports; a Payment's status changes in handled webhooks only.
C27_ReadOnly ==
  [][/\ StatusStep =>
          /\ payments' = payments /\ bookings' = bookings
          /\ listings' = listings /\ reviews' = reviews
          /\ outbox' = outbox
     /\ (\E i \in DOMAIN payments :
           payments'[i].payment_status # payments[i].payment_status) =>
          (last'.op = "webhook" /\ last'.code = 200)]_vars

\* the provider verified the transaction of a Payment, the lookup answered
\* 200, and the Payment is pending as before
C27_Witness ==
  /\ last.op = "status" /\ last.code = 200 /\ last.verification = "success"
  /\ payments[last.pid].payment_status = "pending"
  /\ payments[last.pid].transaction_id = Null

\* C28: a Payment whose initialization failed at the gateway stays in the
\* table, pending and without provider reference, and the request handled
\* next, a webhook or a status lookup, neither finds nor changes it.
C28_Unmatched ==
  [][/\ (/\ last'.op = "initiate" /\ Len(payments') > Len(payments)
         /\ last'.verification = "error") =>
          /\ payments'[last'.pid].payment_status = "pending"
          /\ payments'[last'.pid].chapa_reference = NullRef
     /\ (/\ last.op = "initiate" /\ last.verification = "error"
         /\ last.pid \in DOMAIN payments) =>
          /\ payments'[last.pid] = payments[last.pid]
          /\ (last'.op \in {"webhook", "status"} /\ last'.code = 200) =>
               last'.pid # last.pid]_vars

C30_StatusChoices ==
  /\ \A i \in DOMAIN payments :
       payments[i].payment_status \in PAYMENT_STATUS_CHOICES
  /\ (last.op = "initiate" /\ last.pid # 0) =>
       payments[last.pid].payment_status = "pending"

\* a webhook whose status string is none of the five was handled and left a
\* status of the five
C30_Witness ==
  /\ last.op = "webhook" /\ last.code = 200
  /\ last.status \notin PAYMENT_STATUS_CHOICES \cup {Missing}
  /\ payments[last.pid].payment_status \in {"completed", "failed"}
====
